---- MODULE Spec2Model ----
(***************************************************************************)
(* Model of the wilderness encounter simulator:                            *)
(*   dice.py                      Dice (notation parser, roll algebra)     *)
(*   table.py                     Table (name lookup, rejection sampling)  *)
(*   wilderness_encounter_sim.py  WildernessEncounterSim (resolution)      *)
(*                                                                         *)
(* Strings that the program parses or formats are sequences of one-char    *)
(* strings (<<"3","d","6">> is "3d6"); names that the program only         *)
(* compares for equality are TLA+ strings.  Tables keep the 0-based        *)
(* indices of the Python lists: table[0] is the header row, table[i][0]    *)
(* the name of row i.                                                      *)
(***************************************************************************)
EXTENDS Integers, Sequences, FiniteSets, TLC

VARIABLES
    \* ---- Dice ----
    ctor,         \* which constructor signature is used: "string" | "fields"
    s,            \* argument of Dice(string)
    args,         \* arguments of Dice(num, sides, mul, add)
    dice,         \* the Dice object: number, sides, multiplier, addition
    text,         \* str(dice)
    parsed,       \* Dice(str(dice))
    total,        \* roll_dice: running total
    rolled,       \* roll_dice: iterations of the for loop done
    roll_result,  \* roll_dice: returned value
    dpc,          \* position in the dice scenario
    \* ---- Table ----
    table,        \* Table.table: the grid, header row and header column included
    top,          \* the Table method that was called
    index,        \* argument of get_random_entry_on_row / _on_col
    name,         \* argument of get_row_from_name / get_col_from_name
    attempts,     \* get_random_entry_on_*: the local variable attempts
    roll,         \* get_random_entry_on_*: the local variable roll
    draws,        \* number of Dice.roll calls the method has made
    entry,        \* value returned by get_random_entry_on_*
    found,        \* value returned by get_*_from_name
    tres,         \* how the method ended: "none" | "returned" | "raised"
    tpc,          \* position in the table scenario
    \* ---- WildernessEncounterSim ----
    main_table,     \* self.main_table
    sub_table,      \* self.sub_table
    monster_table,  \* self.monster_table
    terrain,        \* self.terrain
    terrain_index,  \* self.terrain_index
    enc,            \* run_sim: iterations of the for loop done
    pc,             \* position of the program
    sattempts,      \* attempts of the get_random_entry_on_col call in progress
                    \* (0 again once the call has returned)
    sub_table_name, \* roll_encounter_by_terrain: sub_table_name
    col_index,      \* roll_encounter_by_sub_table: col_index
    monster_name,   \* roll_encounter_by_sub_table: monster_name (after the fixup)
    npc_level,      \* handle_npc_type: npc_level
    ent_number,     \* get_npc_entourage: number
    ent_total,      \* get_npc_entourage: total
    ent_i,          \* get_npc_entourage: iterations of the for loop done
    monster_index,  \* roll_encounter_by_monster: monster_index
    num_dice,       \* roll_encounter_by_monster: num_dice
    ntotal,         \* num_dice.roll_dice(): total
    nrolled,        \* num_dice.roll_dice(): iterations of the for loop done
    number,         \* roll_encounter_by_monster: number
    ehd,            \* roll_encounter_by_monster: ehd
    hit_dice_num,   \* roll_encounter_by_monster: hit_dice_num
    ret,            \* value returned by roll_encounter_by_terrain
    warned,         \* the message the resolution wrote to stderr ("" if none)
    stages,         \* the stages the resolution in progress has entered, in order
    drew            \* the last step called Dice.roll

diceVars == <<ctor, s, args, dice, text, parsed, total, rolled, roll_result, dpc>>

tableVars == <<table, top, index, name, attempts, roll, draws, entry, found, tres, tpc>>

simVars ==
    <<main_table, sub_table, monster_table, terrain, terrain_index, enc, pc,
      sattempts, sub_table_name, col_index, monster_name, npc_level, ent_number,
      ent_total, ent_i, monster_index, num_dice, ntotal, nrolled, number, ehd,
      hit_dice_num, ret, warned, stages, drew>>

vars == <<diceVars, tableVars, simVars>>

nonDiceVars == <<tableVars, simVars>>

nonTableVars == <<diceVars, simVars>>

nonSimVars == <<diceVars, tableVars>>

(***************************************************************************)
(* Bounds of the model.                                                    *)
(***************************************************************************)
MaxLen == 4       \* longest notation string handed to Dice(string)
MaxCount == 3     \* largest number of dice that is rolled
MaxSides == 3     \* largest die that is rolled
MaxMul == 2       \* multipliers -MaxMul..MaxMul
MaxAdd == 2       \* additions -MaxAdd..MaxAdd
MaxRows == 2      \* most data rows of an enumerated table
MaxCols == 2      \* most data columns of an enumerated table
MaxEncounters == 2  \* length of the modelled run (NUM_ENCOUNTERS is 1000)

(***************************************************************************)
(* Characters and decimal conversion.                                      *)
(***************************************************************************)
Digits == {"0", "1", "2", "3", "4", "5", "6", "7", "8", "9"}
NonZeroDigits == Digits \ {"0"}

\* the characters of the notation strings that are enumerated
Alphabet == {"0", "1", "2", "d", "x", "/", "+", "-", "a"}

DigitVal(c) ==
    CASE c = "0" -> 0 [] c = "1" -> 1 [] c = "2" -> 2 [] c = "3" -> 3
      [] c = "4" -> 4 [] c = "5" -> 5 [] c = "6" -> 6 [] c = "7" -> 7
      [] c = "8" -> 8 [] c = "9" -> 9

DigitChar(n) ==
    CASE n = 0 -> "0" [] n = 1 -> "1" [] n = 2 -> "2" [] n = 3 -> "3"
      [] n = 4 -> "4" [] n = 5 -> "5" [] n = 6 -> "6" [] n = 7 -> "7"
      [] n = 8 -> "8" [] n = 9 -> "9"

IsDigits(str) == Len(str) >= 1 /\ \A k \in 1..Len(str) : str[k] \in Digits

RECURSIVE DigitsToInt(_)
\* int() of a non-empty string of decimal digits (leading zeros allowed)
DigitsToInt(str) ==
    IF Len(str) = 0 THEN 0
    ELSE 10 * DigitsToInt(SubSeq(str, 1, Len(str) - 1)) + DigitVal(str[Len(str)])

RECURSIVE NatToStr(_)
\* decimal digits of n >= 0, as str(n) and f"{n}" write them
NatToStr(n) ==
    IF n < 10 THEN <<DigitChar(n)>>
    ELSE NatToStr(n \div 10) \o <<DigitChar(n % 10)>>

\* str(n) of a Python int
IntToStr(n) == IF n < 0 THEN <<"-">> \o NatToStr(-n) ELSE NatToStr(n)

\* int(str) succeeds: [+-]?[0-9]+ (over Alphabet, which has no blank and no "_")
IsIntLiteral(str) ==
    \/ IsDigits(str)
    \/ Len(str) >= 2 /\ str[1] \in {"+", "-"} /\ IsDigits(Tail(str))

\* int(str) of a string for which int() succeeds
IntLiteral(str) ==
    IF str[1] = "-" THEN -DigitsToInt(Tail(str))
    ELSE IF str[1] = "+" THEN DigitsToInt(Tail(str))
    ELSE DigitsToInt(str)

(***************************************************************************)
(* dice.py                                                                 *)
(***************************************************************************)
MkDice(n, sd, m, a) == [number |-> n, sides |-> sd, multiplier |-> m, addition |-> a]

\* _parse_string, lines 68-71: the fields before the pattern is tried
ZeroDice == MkDice(0, 0, 1, 0)

RECURSIVE DigitRun(_, _)
\* length of the longest run of digits of str that starts at position p: \d*
DigitRun(str, p) ==
    IF p <= Len(str) /\ str[p] \in Digits THEN 1 + DigitRun(str, p + 1) ELSE 0

\* length of the longest [1-9]\d* that starts at position p (0: none)
PosIntRun(str, p) ==
    IF p <= Len(str) /\ str[p] \in NonZeroDigits THEN 1 + DigitRun(str, p + 1) ELSE 0

\* pattern.match(s): the pattern is tried at the start of s, with greedy groups;
\* ok is whether it matches, g1..g4 are the groups ("" when a group is absent)
\* and end is the number of characters the match consumed.
PatternMatch(str) ==
    LET n1 == PosIntRun(str, 1)
        pd == n1 + 1
        n2 == PosIntRun(str, pd + 1)
        p3 == pd + 1 + n2
        n3 == IF p3 <= Len(str) /\ str[p3] \in {"/", "x"}
              THEN PosIntRun(str, p3 + 1) ELSE 0
        p4 == IF n3 > 0 THEN p3 + 1 + n3 ELSE p3
        n4 == IF p4 <= Len(str) /\ str[p4] \in {"+", "-"}
              THEN DigitRun(str, p4 + 1) ELSE 0
        pe == IF n4 > 0 THEN p4 + 1 + n4 ELSE p4
    IN  IF pd <= Len(str) /\ str[pd] = "d" /\ n2 > 0
        THEN [ok |-> TRUE,
              g1 |-> SubSeq(str, 1, n1),
              g2 |-> SubSeq(str, pd + 1, pd + n2),
              g3 |-> IF n3 > 0 THEN SubSeq(str, p3, p3 + n3) ELSE <<>>,
              g4 |-> IF n4 > 0 THEN SubSeq(str, p4, p4 + n4) ELSE <<>>,
              end |-> pe - 1]
        ELSE [ok |-> FALSE, g1 |-> <<>>, g2 |-> <<>>, g3 |-> <<>>, g4 |-> <<>>,
              end |-> 0]

\* Dice._parse_string
ParseString(str) ==
    LET m == PatternMatch(str)
    IN  IF m.ok
        THEN MkDice(IF Len(m.g1) > 0 THEN DigitsToInt(m.g1) ELSE 1,
                    DigitsToInt(m.g2),
                    IF Len(m.g3) > 0
                    THEN (IF m.g3[1] = "x" THEN DigitsToInt(Tail(m.g3))
                          ELSE -DigitsToInt(Tail(m.g3)))
                    ELSE 1,
                    IF Len(m.g4) > 0
                    THEN (IF m.g4[1] = "+" THEN DigitsToInt(Tail(m.g4))
                          ELSE -DigitsToInt(Tail(m.g4)))
                    ELSE 0)
        ELSE IF IsIntLiteral(str) THEN MkDice(0, 0, 1, IntLiteral(str))
        ELSE ZeroDice

\* Dice._format_bonus
FormatBonus(bonus) ==
    IF bonus >= 0 THEN <<"+">> \o IntToStr(bonus) ELSE IntToStr(bonus)

\* a slip in _format_multiplier: the divisor sign is lost
FormatMultiplierAlwaysTimes(mult) ==
    <<"x">> \o IntToStr(IF mult >= 0 THEN mult ELSE -mult)

\* Dice._format_multiplier
FormatMultiplier(mult) ==
    IF mult >= 0 THEN <<"x">> \o IntToStr(mult) ELSE <<"/">> \o IntToStr(-mult)

\* Dice.__str__
DiceToStr(d) ==
    IF d.number > 0
    THEN IntToStr(d.number) \o <<"d">> \o IntToStr(d.sides)
         \o (IF d.multiplier # 1 THEN FormatMultiplier(d.multiplier) ELSE <<>>)
         \o (IF d.addition # 0 THEN FormatBonus(d.addition) ELSE <<>>)
    ELSE IntToStr(d.addition)

\* Dice.roll(sides): random.randint(1, sides), every outcome the generator has
Roll(sides) == 1..sides

\* a slip in _adjust_roll: plain floor division instead of the ceiling
AdjustRollFloor(d, rawroll) ==
    (IF d.multiplier >= 0 THEN rawroll * d.multiplier
     ELSE rawroll \div (-d.multiplier)) + d.addition

\* Dice._adjust_roll
AdjustRoll(d, rawroll) ==
    (IF d.multiplier >= 0 THEN rawroll * d.multiplier
     ELSE (rawroll - 1) \div (-d.multiplier) + 1) + d.addition

(***************************************************************************)
(* table.py                                                                *)
(***************************************************************************)
\* Table.NULL_ENTRY
NULL_ENTRY == "-"

\* get_random_entry_on_row / _on_col: max_attempts = 1000
max_attempts == 1000

\* len(self.table) and len(self.table[0])
LenRows(t) == Cardinality(DOMAIN t)
LenCols(t) == Cardinality(DOMAIN t[0])

\* Table.get_num_rows, Table.get_num_cols
get_num_rows(t) == LenRows(t) - 1
get_num_cols(t) == LenCols(t) - 1

\* Table.get_row_name, Table.get_col_name, Table.get_entry
get_row_name(t, i) == t[i][0]
get_col_name(t, j) == t[0][j]
get_entry(t, row, col) == t[row][col]

RECURSIVE ScanRows(_, _, _)
\* get_row_from_name: the for loop from i on
ScanRows(t, nm, i) ==
    IF i >= LenRows(t) THEN -1
    ELSE IF t[i][0] = nm THEN i
    ELSE ScanRows(t, nm, i + 1)

RECURSIVE ScanCols(_, _, _)
\* get_col_from_name: the for loop from i on
ScanCols(t, nm, i) ==
    IF i >= LenCols(t) THEN -1
    ELSE IF t[0][i] = nm THEN i
    ELSE ScanCols(t, nm, i + 1)

\* a slip in get_row_from_name: the scan starts at the header row
get_row_from_name_from0(t, nm) == ScanRows(t, nm, 0)

\* Table.get_row_from_name
get_row_from_name(t, nm) == ScanRows(t, nm, 1)

\* Table.get_col_from_name
get_col_from_name(t, nm) == ScanCols(t, nm, 1)

\* a slip in the loop condition: one attempt too many
LoopRunsOneMore(att) == att <= max_attempts

\* get_random_entry_on_row / _on_col: while attempts < max_attempts
LoopRuns(att) == att < max_attempts

\* a slip in the draw: the header position is drawn too
TableRollFromHeader(n) == 0..n

\* get_random_entry_on_row / _on_col: roll = Dice.roll(n)
TableRoll(n) == Roll(n)

(***************************************************************************)
(* Table scenario: one method of one table is called.                      *)
(***************************************************************************)
\* the grid with nr data rows and nc data columns, from its parts
MkTable(nr, nc, corner, rowNames, colNames, data) ==
    [i \in 0..nr |->
        [j \in 0..nc |->
            IF i = 0 /\ j = 0 THEN corner
            ELSE IF i = 0 THEN colNames[j]
            ELSE IF j = 0 THEN rowNames[i]
            ELSE data[i][j]]]

HeaderNames == {"Orc", "Elf"}
CornerNames == {"", "Elf", "Men"}
QueryNames == {"Orc", "Elf", "Men"}

\* tables whose headers vary (the data cells are all "x")
NamedTables ==
    UNION {{MkTable(nr, nc, c, rn, cn, [i \in 1..nr |-> [j \in 1..nc |-> "x"]]) :
                c \in CornerNames, rn \in [1..nr -> HeaderNames],
                cn \in [1..nc -> HeaderNames]} :
           nr \in 1..MaxRows, nc \in 1..MaxCols}

\* tables whose data cells vary between the null marker and a value: the rows
\* in nullRows and the columns in nullCols are null, so that every row and every
\* column takes every pattern of null and non-null cells
SparseTables ==
    UNION {{MkTable(nr, nc, "", [i \in 1..nr |-> "Orc"], [j \in 1..nc |-> "Elf"],
                    [i \in 1..nr |-> [j \in 1..nc |->
                        IF i \in nullRows \/ j \in nullCols THEN NULL_ENTRY
                        ELSE IF (i + j) % 2 = 0 THEN "x" ELSE "y"]]) :
                nullRows \in SUBSET (1..nr), nullCols \in SUBSET (1..nc)} :
           nr \in 1..MaxRows, nc \in 1..MaxCols}

TableInit ==
    /\ table \in NamedTables \cup SparseTables
    /\ top = "none"
    /\ index = 0
    /\ name = ""
    /\ attempts = 0
    /\ roll = 0
    /\ draws = 0
    /\ entry = ""
    /\ found = 0
    /\ tres = "none"
    /\ tpc = "idle"

\* the table scenario is not run
TableIdle ==
    /\ table = MkTable(0, 0, "", <<>>, <<>>, <<>>)
    /\ top = "none" /\ index = 0 /\ name = "" /\ attempts = 0 /\ roll = 0
    /\ draws = 0 /\ entry = "" /\ found = 0 /\ tres = "none" /\ tpc = "off"

\* table.get_row_from_name(nm)
GetRowFromName ==
    /\ tpc = "idle"
    /\ \E nm \in QueryNames :
        /\ name' = nm
        /\ found' = get_row_from_name(table, nm)
    /\ top' = "row_from_name"
    /\ tpc' = "done"
    /\ UNCHANGED <<table, index, attempts, roll, draws, entry, tres>>
    /\ UNCHANGED nonTableVars

\* table.get_col_from_name(nm)
GetColFromName ==
    /\ tpc = "idle"
    /\ \E nm \in QueryNames :
        /\ name' = nm
        /\ found' = get_col_from_name(table, nm)
    /\ top' = "col_from_name"
    /\ tpc' = "done"
    /\ UNCHANGED <<table, index, attempts, roll, draws, entry, tres>>
    /\ UNCHANGED nonTableVars

\* table.get_random_entry_on_row(i) is called: attempts = 0
RandomEntryOnRowCall ==
    /\ tpc = "idle"
    /\ \E i \in 1..get_num_rows(table) : index' = i
    /\ top' = "row"
    /\ attempts' = 0
    /\ tpc' = "sampling"
    /\ UNCHANGED <<table, name, roll, draws, entry, found, tres>>
    /\ UNCHANGED nonTableVars

\* table.get_random_entry_on_col(j) is called: attempts = 0
RandomEntryOnColCall ==
    /\ tpc = "idle"
    /\ \E j \in 1..get_num_cols(table) : index' = j
    /\ top' = "col"
    /\ attempts' = 0
    /\ tpc' = "sampling"
    /\ UNCHANGED <<table, name, roll, draws, entry, found, tres>>
    /\ UNCHANGED nonTableVars

\* one iteration of the while loop; cellAt[r] is the cell the roll r selects
SampleIteration(cellAt, n) ==
    /\ tpc = "sampling"
    /\ LoopRuns(attempts)
    /\ \E r \in TableRoll(n) :
        /\ roll' = r
        /\ IF cellAt[r] # NULL_ENTRY
           THEN /\ entry' = cellAt[r]
                /\ tres' = "returned"
                /\ tpc' = "done"
                /\ UNCHANGED attempts
           ELSE /\ attempts' = attempts + 1
                /\ UNCHANGED <<entry, tres, tpc>>
    /\ draws' = draws + 1
    /\ UNCHANGED <<table, top, index, name, found>>
    /\ UNCHANGED nonTableVars

\* get_random_entry_on_row: one iteration of the while loop
RandomEntryOnRowIteration ==
    /\ top = "row"
    /\ SampleIteration(table[index], get_num_cols(table))

\* get_random_entry_on_col: one iteration of the while loop
RandomEntryOnColIteration ==
    /\ top = "col"
    /\ SampleIteration([r \in DOMAIN table |-> table[r][index]], get_num_rows(table))

\* get_random_entry_on_row / _on_col: the loop is over, raise ValueError
RandomEntryExhausted ==
    /\ tpc = "sampling"
    /\ ~LoopRuns(attempts)
    /\ tres' = "raised"
    /\ tpc' = "done"
    /\ UNCHANGED <<table, top, index, name, attempts, roll, draws, entry, found>>
    /\ UNCHANGED nonTableVars

TableNext ==
    \/ GetRowFromName
    \/ GetColFromName
    \/ RandomEntryOnRowCall
    \/ RandomEntryOnColCall
    \/ RandomEntryOnRowIteration
    \/ RandomEntryOnColIteration
    \/ RandomEntryExhausted


(***************************************************************************)
(* wilderness_encounter_sim.py                                             *)
(***************************************************************************)
\* WildernessEncounterSim.MONSTER_NUM_COL, MONSTER_HDN_COL, MONSTER_EHD_COL
MONSTER_NUM_COL == 1
MONSTER_HDN_COL == 12
MONSTER_EHD_COL == 13

\* parse_args: `if self.terrain_index < 1` (the terrain is unknown)
TerrainUnknown(i) == i < 1

\* a slip in the validity test: only 0 is taken for "not found"
SubTableUnknownZeroOnly(i) == i = 0

\* roll_encounter_by_sub_table: `if col_index < 1` (the subtable is unknown)
SubTableUnknown(i) == i < 1

\* roll_encounter_by_monster: `if monster_index < 1` (the monster is unknown)
MonsterUnknown(i) == i < 1

\* WildernessEncounterSim.sub_table_fixup
sub_table_fixup(tbl, sub) ==
    IF sub = "Men"
    THEN (IF tbl = "Mountain" THEN "Men Mountain"
          ELSE IF tbl = "Desert" THEN "Men Desert"
          ELSE IF tbl = "River" THEN "Men Water"
          ELSE "Men Typical")
    ELSE sub

\* monster_fixup: the die it rolls for the name (0: none)
FixupSides(mon_name) ==
    IF mon_name = "Giant" THEN 10 ELSE IF mon_name = "Dragon" THEN 6 ELSE 0

\* WildernessEncounterSim.monster_fixup, r being the roll it made for the name
monster_fixup(mon_name, r) ==
    IF mon_name = "Giant"
    THEN (IF r <= 6 THEN "Giant, Hill"
          ELSE IF r = 7 THEN "Giant, Stone"
          ELSE IF r = 8 THEN "Giant, Frost"
          ELSE IF r = 9 THEN "Giant, Fire"
          ELSE "Giant, Cloud")
    ELSE IF mon_name = "Dragon"
    THEN (IF r = 1 THEN "Dragon, White"
          ELSE IF r = 2 THEN "Dragon, Black"
          ELSE IF r = 3 THEN "Dragon, Green"
          ELSE IF r = 4 THEN "Dragon, Blue"
          ELSE IF r = 5 THEN "Dragon, Red"
          ELSE "Dragon, Gold")
    ELSE IF mon_name = "Giant Snake" THEN "Giant Snake, Constrictor"
    ELSE IF mon_name = "Giant Beetle" THEN "Giant Beetle, Bombardier"
    ELSE IF mon_name = "Giant Ant" THEN "Giant Ant, Worker"
    ELSE IF mon_name = "Sea Monster" THEN "Sea Monster, Small"
    ELSE IF mon_name = "Hydra" THEN "Hydra, 10 Heads"
    ELSE IF mon_name = "Roc" THEN "Roc, Small"
    ELSE mon_name

\* a slip in handle_npc_type: Lord gets the level of the line below it
NpcLevelLordAsSuperhero(type_name) ==
    IF type_name = "Wizard" THEN 11
    ELSE IF type_name = "Necromancer" THEN 10
    ELSE IF type_name \in {"Lord", "Superhero", "Patriarch", "Evil High Priest"} THEN 8
    ELSE 0

\* handle_npc_type: npc_level
NpcLevel(type_name) ==
    IF type_name = "Wizard" THEN 11
    ELSE IF type_name = "Necromancer" THEN 10
    ELSE IF type_name = "Lord" THEN 9
    ELSE IF type_name = "Superhero" THEN 8
    ELSE IF type_name = "Patriarch" THEN 8
    ELSE IF type_name = "Evil High Priest" THEN 8
    ELSE 0

\* WildernessEncounterSim.ehd_fixup
ehd_fixup(mon_name, e) ==
    IF e = 0 /\ mon_name = "Dragon, Gold" THEN 40 ELSE e

\* WildernessEncounterSim.str_to_int (cells are strings over digits and signs,
\* blank, or words without digits)
str_to_int(str) == IF IsIntLiteral(str) THEN IntLiteral(str) ELSE 0

RECURSIVE Pow10(_)
Pow10(k) == IF k = 0 THEN 1 ELSE 10 * Pow10(k - 1)

\* A float, as far as the program uses it: nan, or the fraction num / den.
NaN == [nan |-> TRUE, num |-> 0, den |-> 1]
Dbl(n, d) == [nan |-> FALSE, num |-> n, den |-> d]

IsDot(c) == c = "."
NotDot(c) == c # "."

\* float(str) succeeds on an unsigned body: digits with at most one ".", or nan
IsFloatBody(str) ==
    \/ str = <<"n", "a", "n">>
    \/ /\ \A k \in 1..Len(str) : str[k] \in Digits \cup {"."}
       /\ Len(SelectSeq(str, IsDot)) <= 1
       /\ Len(SelectSeq(str, NotDot)) >= 1

\* float(str) succeeds (cells are strings over digits, ".", signs and letters)
IsFloatLiteral(str) ==
    \/ IsFloatBody(str)
    \/ Len(str) >= 2 /\ str[1] \in {"+", "-"} /\ IsFloatBody(Tail(str))

\* float(body) of an unsigned body
FloatBody(str) ==
    IF str = <<"n", "a", "n">> THEN NaN
    ELSE LET dot == CHOOSE k \in 1..(Len(str) + 1) :
                        (k <= Len(str) /\ str[k] = ".")
                        \/ (k = Len(str) + 1 /\ \A q \in 1..Len(str) : str[q] # ".")
             frac == IF dot > Len(str) THEN 0 ELSE Len(str) - dot
         IN  Dbl(DigitsToInt(SelectSeq(str, NotDot)), Pow10(frac))

\* WildernessEncounterSim.str_to_dbl
str_to_dbl(str) ==
    IF ~IsFloatLiteral(str) THEN Dbl(0, 1)
    ELSE IF str[1] = "-"
         THEN LET b == FloatBody(Tail(str)) IN [b EXCEPT !.num = -b.num]
    ELSE IF str[1] = "+" THEN FloatBody(Tail(str))
    ELSE FloatBody(str)

\* x <= 1.0 and x > 1.0 on floats: both are false of nan
LeOne(x) == ~x.nan /\ x.num <= x.den
GtOne(x) == ~x.nan /\ x.num > x.den

\* a slip in the sweep test: `<` for `<=`
SweepAppliesStrict(x) == ~x.nan /\ x.num < x.den

\* roll_encounter_by_monster: `if hit_dice_num <= 1.0`
SweepApplies(x) == LeOne(x)

\* roll_encounter_by_monster, lines 231-242: the value returned for the rolled
\* number, the EHD cell and the hit-dice cell of the monster
EncounterEhd(mon_name, ehdCell) == ehd_fixup(mon_name, str_to_int(ehdCell))

EncounterTotal(num, e, hdn) ==
    IF SweepApplies(hdn) THEN (num * e) \div 4 ELSE num * e

(***************************************************************************)
(* The program: main() builds the simulator, parse_args takes the terrain, *)
(* run_sim resolves MaxEncounters encounters.                              *)
(***************************************************************************)
\* the terrain table: column = terrain, cells = subtable names
MainTable ==
    MkTable(2, 4, "Roll",
            <<"1", "2">>,
            <<"Plains", "Mountain", "Desert", "River">>,
            << <<"Men", "Men", "Men", "Men">>,
               <<"Animal", "Flyer", NULL_ENTRY, "Animal">> >>)

\* the subtable grid: column = subtable, cells = monster names
SubTable ==
    MkTable(6, 5, "Roll",
            <<"1", "2", "3", "4", "5", "6">>,
            <<"Men Typical", "Men Mountain", "Men Desert", "Animal", "Flyer">>,
            << <<"Lord",             "Necromancer", "Nomad",    "Giant",  NULL_ENTRY>>,
               <<"Wizard",           "Bandit",      NULL_ENTRY, "Dragon", NULL_ENTRY>>,
               <<"Superhero",        "Bandit",      "Bandit",   "Hydra",  NULL_ENTRY>>,
               <<"Patriarch",        "Bandit",      NULL_ENTRY, "Kobold", NULL_ENTRY>>,
               <<"Evil High Priest", "Bandit",      "Bandit",   "Kobold", NULL_ENTRY>>,
               <<"Bandit",           "Bandit",      NULL_ENTRY, "Orc",    NULL_ENTRY>> >>)

\* a row of the monster database: name, number appearing, hit dice, EHD
MonsterRow(nm, num, hdn, e) ==
    [j \in 0..MONSTER_EHD_COL |->
        IF j = 0 THEN nm
        ELSE IF j = MONSTER_NUM_COL THEN num
        ELSE IF j = MONSTER_HDN_COL THEN hdn
        ELSE IF j = MONSTER_EHD_COL THEN e
        ELSE <<>>]

\* the header row of the monster database
MonsterHeader ==
    [j \in 0..MONSTER_EHD_COL |->
        IF j = 0 THEN "Name"
        ELSE IF j = MONSTER_NUM_COL THEN <<"N", "A">>
        ELSE IF j = MONSTER_HDN_COL THEN <<"H", "D">>
        ELSE IF j = MONSTER_EHD_COL THEN <<"E", "H", "D">>
        ELSE <<>>]

\* cells of the row of the monster database that varies
NumCells == {<<"3">>, <<"2", "d", "2">>, <<"-", "1">>}
HdnCells == {<<"0", ".", "5">>, <<"1">>, <<"2">>, <<"n", "a", "n">>, <<>>}
EhdCells == {<<"1">>, <<>>}

\* the monster database: the Bandit row varies, the other rows are fixed
MonsterTables ==
    {[i \in 0..6 |->
        CASE i = 0 -> MonsterHeader
          [] i = 1 -> MonsterRow("Bandit", num, hdn, e)
          [] i = 2 -> MonsterRow("Giant, Hill", <<"d", "2">>, <<"8">>, <<"1", "0">>)
          [] i = 3 -> MonsterRow("Dragon, Gold", <<"1">>, <<"1", "2">>, <<>>)
          [] i = 4 -> MonsterRow("Hydra, 10 Heads", <<"1">>, <<"1", "0">>, <<"x">>)
          [] i = 5 -> MonsterRow("Kobold", <<"3">>, <<"0", ".", "5">>, <<"8">>)
          [] i = 6 -> MonsterRow("Orc", <<"1">>, <<"2">>, <<"1", "0">>)] :
     num \in NumCells, hdn \in HdnCells, e \in EhdCells}

\* the command-line arguments that are tried
TerrainArgs == {"Plains", "Mountain", "Desert", "River", "Swamp"}

\* the locals of a resolution, before it starts and after it has returned
NoLocals ==
    /\ sattempts = 0 /\ sub_table_name = "" /\ col_index = 0 /\ monster_name = ""
    /\ npc_level = 0 /\ ent_number = 0 /\ ent_total = 0 /\ ent_i = 0
    /\ monster_index = 0 /\ num_dice = ZeroDice /\ ntotal = 0 /\ nrolled = 0
    /\ number = 0 /\ ehd = 0 /\ hit_dice_num = Dbl(0, 1) /\ ret = 0
    /\ warned = "" /\ stages = <<>> /\ drew = FALSE

\* the frames of a resolution are gone
ResetLocals ==
    /\ sattempts' = 0 /\ sub_table_name' = "" /\ col_index' = 0 /\ monster_name' = ""
    /\ npc_level' = 0 /\ ent_number' = 0 /\ ent_total' = 0 /\ ent_i' = 0
    /\ monster_index' = 0 /\ num_dice' = ZeroDice /\ ntotal' = 0 /\ nrolled' = 0
    /\ number' = 0 /\ ehd' = 0 /\ hit_dice_num' = Dbl(0, 1) /\ ret' = 0
    /\ warned' = "" /\ stages' = <<>> /\ drew' = FALSE

locals ==
    <<sattempts, sub_table_name, col_index, monster_name, npc_level, ent_number,
      ent_total, ent_i, monster_index, num_dice, ntotal, nrolled, number, ehd,
      hit_dice_num, ret, warned, stages>>

tables == <<main_table, sub_table, monster_table>>

\* WildernessEncounterSim(): the tables are loaded
SimInit ==
    /\ main_table = MainTable
    /\ sub_table = SubTable
    /\ monster_table \in MonsterTables
    /\ terrain = ""
    /\ terrain_index = 0
    /\ enc = 0
    /\ pc = "args"
    /\ NoLocals

\* the program is not run
SimIdle ==
    /\ main_table = MkTable(0, 0, "", <<>>, <<>>, <<>>)
    /\ sub_table = MkTable(0, 0, "", <<>>, <<>>, <<>>)
    /\ monster_table = MkTable(0, 0, "", <<>>, <<>>, <<>>)
    /\ terrain = "" /\ terrain_index = 0 /\ enc = 0 /\ pc = "off"
    /\ NoLocals

\* parse_args with one argument, then main: print_usage or run_sim
ParseArgs ==
    /\ pc = "args"
    /\ \E tn \in TerrainArgs :
        /\ terrain' = tn
        /\ terrain_index' = get_col_from_name(main_table, tn)
        /\ pc' = IF TerrainUnknown(get_col_from_name(main_table, tn))
                 THEN "usage" ELSE "loop"
    /\ drew' = FALSE
    /\ UNCHANGED <<tables, enc, locals>>
    /\ UNCHANGED nonSimVars

\* run_sim: the for loop starts an iteration: roll_encounter_by_terrain is called
RunSimIteration ==
    /\ pc = "loop"
    /\ enc < MaxEncounters
    /\ pc' = "terrain_draw"
    /\ sattempts' = 0
    /\ stages' = <<1>>
    /\ drew' = FALSE
    /\ UNCHANGED <<tables, terrain, terrain_index, enc, sub_table_name, col_index,
                   monster_name, npc_level, ent_number, ent_total, ent_i,
                   monster_index, num_dice, ntotal, nrolled, number, ehd,
                   hit_dice_num, ret, warned>>
    /\ UNCHANGED nonSimVars

\* run_sim: the for loop is over
RunSimReturn ==
    /\ pc = "loop"
    /\ enc >= MaxEncounters
    /\ pc' = "finished"
    /\ drew' = FALSE
    /\ UNCHANGED <<tables, terrain, terrain_index, enc, locals>>
    /\ UNCHANGED nonSimVars

\* roll_encounter_by_terrain: one iteration of the loop of
\* main_table.get_random_entry_on_col(terrain_index); on a non-null entry,
\* sub_table_fixup and the call of roll_encounter_by_sub_table
TerrainDraw ==
    /\ pc = "terrain_draw"
    /\ LoopRuns(sattempts)
    /\ \E r \in TableRoll(get_num_rows(main_table)) :
        LET e == main_table[r][terrain_index]
        IN  IF e # NULL_ENTRY
            THEN /\ sub_table_name' = sub_table_fixup(terrain, e)
                 /\ pc' = "sub_lookup"
                 /\ stages' = Append(stages, 2)
                 /\ sattempts' = 0
            ELSE /\ sattempts' = sattempts + 1
                 /\ UNCHANGED <<sub_table_name, pc, stages>>
    /\ drew' = TRUE
    /\ UNCHANGED <<tables, terrain, terrain_index, enc, col_index, monster_name,
                   npc_level, ent_number, ent_total, ent_i, monster_index,
                   num_dice, ntotal, nrolled, number, ehd, hit_dice_num, ret,
                   warned>>
    /\ UNCHANGED nonSimVars

\* get_random_entry_on_col raises ValueError after max_attempts rejected draws;
\* no caller catches it: the exception ends run_sim and the program
SampleRaises ==
    /\ pc \in {"terrain_draw", "sub_draw"}
    /\ ~LoopRuns(sattempts)
    /\ pc' = "aborted"
    /\ drew' = FALSE
    /\ UNCHANGED <<tables, terrain, terrain_index, enc, locals>>
    /\ UNCHANGED nonSimVars

\* roll_encounter_by_sub_table: col_index = sub_table.get_col_from_name(...)
SubTableLookup ==
    /\ pc = "sub_lookup"
    /\ col_index' = get_col_from_name(sub_table, sub_table_name)
    /\ pc' = "sub_check"
    /\ drew' = FALSE
    /\ UNCHANGED <<tables, terrain, terrain_index, enc, sattempts, sub_table_name,
                   monster_name, npc_level, ent_number, ent_total, ent_i,
                   monster_index, num_dice, ntotal, nrolled, number, ehd,
                   hit_dice_num, ret, warned, stages>>
    /\ UNCHANGED nonSimVars

\* roll_encounter_by_sub_table: `if col_index < 1`: report and return 0
SubTableCheck ==
    /\ pc = "sub_check"
    /\ IF SubTableUnknown(col_index)
       THEN /\ warned' = "Unknown subtable"
            /\ ret' = 0
            /\ pc' = "print"
            /\ UNCHANGED sattempts
       ELSE /\ sattempts' = 0
            /\ pc' = "sub_draw"
            /\ UNCHANGED <<warned, ret>>
    /\ drew' = FALSE
    /\ UNCHANGED <<tables, terrain, terrain_index, enc, sub_table_name, col_index,
                   monster_name, npc_level, ent_number, ent_total, ent_i,
                   monster_index, num_dice, ntotal, nrolled, number, ehd,
                   hit_dice_num, stages>>
    /\ UNCHANGED nonSimVars

\* roll_encounter_by_sub_table: one iteration of the loop of
\* sub_table.get_random_entry_on_col(col_index); on a non-null entry,
\* monster_fixup (with its own roll for a Giant or a Dragon) and the call of
\* roll_encounter_by_monster
SubTableDraw ==
    /\ pc = "sub_draw"
    /\ LoopRuns(sattempts)
    /\ \E r \in TableRoll(get_num_rows(sub_table)) :
        LET e == sub_table[r][col_index]
        IN  IF e # NULL_ENTRY
            THEN /\ \E r2 \in (IF FixupSides(e) > 0 THEN Roll(FixupSides(e)) ELSE {0}) :
                        monster_name' = monster_fixup(e, r2)
                 /\ pc' = "npc"
                 /\ stages' = Append(stages, 3)
                 /\ sattempts' = 0
            ELSE /\ sattempts' = sattempts + 1
                 /\ UNCHANGED <<monster_name, pc, stages>>
    /\ drew' = TRUE
    /\ UNCHANGED <<tables, terrain, terrain_index, enc, sub_table_name, col_index,
                   npc_level, ent_number, ent_total, ent_i, monster_index,
                   num_dice, ntotal, nrolled, number, ehd, hit_dice_num, ret,
                   warned>>
    /\ UNCHANGED nonSimVars

\* handle_npc_type: the level of the name; 0 is returned for a name that is no
\* NPC type, and roll_encounter_by_monster goes on to the monster table
NpcCheck ==
    /\ pc = "npc"
    /\ npc_level' = NpcLevel(monster_name)
    /\ IF NpcLevel(monster_name) = 0
       THEN /\ pc' = "mon_lookup"
            /\ stages' = Append(stages, 4)
       ELSE /\ pc' = "entourage_number"
            /\ UNCHANGED stages
    /\ drew' = FALSE
    /\ UNCHANGED <<tables, terrain, terrain_index, enc, sattempts, sub_table_name,
                   col_index, monster_name, ent_number, ent_total, ent_i,
                   monster_index, num_dice, ntotal, nrolled, number, ehd,
                   hit_dice_num, ret, warned>>
    /\ UNCHANGED nonSimVars

\* get_npc_entourage: number = Dice(2, 6).roll_dice()
EntourageNumber ==
    /\ pc = "entourage_number"
    /\ \E r1 \in Roll(6), r2 \in Roll(6) :
        ent_number' = AdjustRoll(MkDice(2, 6, 1, 0), r1 + r2)
    /\ ent_total' = 0
    /\ ent_i' = 0
    /\ pc' = "entourage"
    /\ drew' = TRUE
    /\ UNCHANGED <<tables, terrain, terrain_index, enc, sattempts, sub_table_name,
                   col_index, monster_name, npc_level, monster_index, num_dice,
                   ntotal, nrolled, number, ehd, hit_dice_num, ret, warned, stages>>
    /\ UNCHANGED nonSimVars

\* get_npc_entourage: one iteration of `for _ in range(number)`
EntourageDraw ==
    /\ pc = "entourage"
    /\ ent_i < ent_number
    /\ \E r \in Roll(4) : ent_total' = ent_total + r
    /\ ent_i' = ent_i + 1
    /\ drew' = TRUE
    /\ UNCHANGED <<tables, terrain, terrain_index, enc, pc, sattempts,
                   sub_table_name, col_index, monster_name, npc_level, ent_number,
                   monster_index, num_dice, ntotal, nrolled, number, ehd,
                   hit_dice_num, ret, warned, stages>>
    /\ UNCHANGED nonSimVars

\* get_npc_entourage and handle_npc_type return; roll_encounter_by_monster:
\* `if npc_value > 0: return npc_value`
EntourageReturn ==
    /\ pc = "entourage"
    /\ ent_i >= ent_number
    /\ IF npc_level + ent_total > 0
       THEN /\ ret' = npc_level + ent_total
            /\ pc' = "print"
            /\ UNCHANGED stages
       ELSE /\ pc' = "mon_lookup"
            /\ stages' = Append(stages, 4)
            /\ UNCHANGED ret
    /\ drew' = FALSE
    /\ UNCHANGED <<tables, terrain, terrain_index, enc, sattempts, sub_table_name,
                   col_index, monster_name, npc_level, ent_number, ent_total,
                   ent_i, monster_index, num_dice, ntotal, nrolled, number, ehd,
                   hit_dice_num, warned>>
    /\ UNCHANGED nonSimVars

\* roll_encounter_by_monster: monster_index = monster_table.get_row_from_name(...)
MonsterLookup ==
    /\ pc = "mon_lookup"
    /\ monster_index' = get_row_from_name(monster_table, monster_name)
    /\ pc' = "mon_check"
    /\ drew' = FALSE
    /\ UNCHANGED <<tables, terrain, terrain_index, enc, sattempts, sub_table_name,
                   col_index, monster_name, npc_level, ent_number, ent_total,
                   ent_i, num_dice, ntotal, nrolled, number, ehd, hit_dice_num,
                   ret, warned, stages>>
    /\ UNCHANGED nonSimVars

\* roll_encounter_by_monster: `if monster_index < 1`: report and return 0;
\* otherwise num_dice = Dice(number-appearing cell)
MonsterCheck ==
    /\ pc = "mon_check"
    /\ IF MonsterUnknown(monster_index)
       THEN /\ warned' = "Unknown monster"
            /\ ret' = 0
            /\ pc' = "print"
            /\ UNCHANGED <<num_dice, ntotal, nrolled>>
       ELSE /\ num_dice' =
                   ParseString(get_entry(monster_table, monster_index, MONSTER_NUM_COL))
            /\ ntotal' = 0
            /\ nrolled' = 0
            /\ pc' = "number"
            /\ UNCHANGED <<warned, ret>>
    /\ drew' = FALSE
    /\ UNCHANGED <<tables, terrain, terrain_index, enc, sattempts, sub_table_name,
                   col_index, monster_name, npc_level, ent_number, ent_total,
                   ent_i, monster_index, number, ehd, hit_dice_num, stages>>
    /\ UNCHANGED nonSimVars

\* num_dice.roll_dice(): one iteration of `for _ in range(self.number)`
NumberDraw ==
    /\ pc = "number"
    /\ nrolled < num_dice.number
    /\ \E r \in Roll(num_dice.sides) : ntotal' = ntotal + r
    /\ nrolled' = nrolled + 1
    /\ drew' = TRUE
    /\ UNCHANGED <<tables, terrain, terrain_index, enc, pc, sattempts,
                   sub_table_name, col_index, monster_name, npc_level, ent_number,
                   ent_total, ent_i, monster_index, num_dice, number, ehd,
                   hit_dice_num, ret, warned, stages>>
    /\ UNCHANGED nonSimVars

\* roll_encounter_by_monster, lines 228-242: number = the adjusted roll, the
\* EHD cell and its fixup, the warning for a zero EHD, the product and the
\* sweep attack division
MonsterTotal ==
    /\ pc = "number"
    /\ nrolled >= num_dice.number
    /\ LET num == AdjustRoll(num_dice, ntotal)
           e == EncounterEhd(monster_name,
                    get_entry(monster_table, monster_index, MONSTER_EHD_COL))
           hdn == str_to_dbl(get_entry(monster_table, monster_index, MONSTER_HDN_COL))
       IN  /\ number' = num
           /\ ehd' = e
           /\ warned' = IF e = 0 THEN "Monster with null EHD" ELSE warned
           /\ hit_dice_num' = hdn
           /\ ret' = EncounterTotal(num, e, hdn)
    /\ pc' = "print"
    /\ drew' = FALSE
    /\ UNCHANGED <<tables, terrain, terrain_index, enc, sattempts, sub_table_name,
                   col_index, monster_name, npc_level, ent_number, ent_total,
                   ent_i, monster_index, num_dice, ntotal, nrolled, stages>>
    /\ UNCHANGED nonSimVars

\* run_sim: print(total_ehd); the frames of the resolution are gone and the
\* printed value is not read again
PrintResult ==
    /\ pc = "print"
    /\ enc' = enc + 1
    /\ pc' = "loop"
    /\ ResetLocals
    /\ UNCHANGED <<tables, terrain, terrain_index>>
    /\ UNCHANGED nonSimVars

SimNext ==
    \/ ParseArgs
    \/ RunSimIteration
    \/ RunSimReturn
    \/ TerrainDraw
    \/ SampleRaises
    \/ SubTableLookup
    \/ SubTableCheck
    \/ SubTableDraw
    \/ NpcCheck
    \/ EntourageNumber
    \/ EntourageDraw
    \/ EntourageReturn
    \/ MonsterLookup
    \/ MonsterCheck
    \/ NumberDraw
    \/ MonsterTotal
    \/ PrintResult

(***************************************************************************)
(* Dice scenario: a Dice is built from a string or from its fields, then   *)
(* it is formatted and parsed back, or rolled.                             *)
(***************************************************************************)
Strings == UNION {[1..n -> Alphabet] : n \in 0..MaxLen}

\* values beyond the rolled range, so that numbers of two digits are formatted
NumberVals == 0..MaxCount \cup {11}
SidesVals == 1..MaxSides \cup {6, 10}
MultiplierVals == -MaxMul..MaxMul \cup {-10, 12}
AdditionVals == -MaxAdd..MaxAdd \cup {-12, 10}

FieldArgs ==
    {MkDice(n, sd, m, a) : n \in NumberVals, sd \in SidesVals,
                           m \in MultiplierVals, a \in AdditionVals}

DiceInit ==
    /\ \/ ctor = "string" /\ s \in Strings /\ args = ZeroDice
       \/ ctor = "fields" /\ s = <<>> /\ args \in FieldArgs
    /\ dice = ZeroDice
    /\ text = <<>>
    /\ parsed = ZeroDice
    /\ total = 0
    /\ rolled = 0
    /\ roll_result = 0
    /\ dpc = "new"

\* the dice scenario is not run
DiceIdle ==
    /\ ctor = "fields" /\ s = <<>> /\ args = ZeroDice /\ dice = ZeroDice
    /\ text = <<>> /\ parsed = ZeroDice /\ total = 0 /\ rolled = 0
    /\ roll_result = 0 /\ dpc = "idle"

\* Dice(string)
DiceFromString ==
    /\ dpc = "new" /\ ctor = "string"
    /\ dice' = ParseString(s)
    /\ dpc' = "built"
    /\ UNCHANGED <<ctor, s, args, text, parsed, total, rolled, roll_result>>
    /\ UNCHANGED nonDiceVars

\* Dice(num, sides, mul, add)
DiceFromFields ==
    /\ dpc = "new" /\ ctor = "fields"
    /\ dice' = args
    /\ dpc' = "built"
    /\ UNCHANGED <<ctor, s, args, text, parsed, total, rolled, roll_result>>
    /\ UNCHANGED nonDiceVars

\* str(dice)
DiceStr ==
    /\ dpc = "built"
    /\ text' = DiceToStr(dice)
    /\ dpc' = "str"
    /\ UNCHANGED <<ctor, s, args, dice, parsed, total, rolled, roll_result>>
    /\ UNCHANGED nonDiceVars

\* Dice(str(dice))
DiceReparse ==
    /\ dpc = "str"
    /\ parsed' = ParseString(text)
    /\ dpc' = "reparsed"
    /\ UNCHANGED <<ctor, s, args, dice, text, total, rolled, roll_result>>
    /\ UNCHANGED nonDiceVars

\* roll_dice: one iteration of `for _ in range(self.number)`
RollDiceDraw ==
    /\ dpc \in {"built", "rolling"}
    /\ rolled < dice.number
    /\ dice.number <= MaxCount /\ dice.sides \in 1..MaxSides
    /\ \E r \in Roll(dice.sides) : total' = total + r
    /\ rolled' = rolled + 1
    /\ dpc' = "rolling"
    /\ UNCHANGED <<ctor, s, args, dice, text, parsed, roll_result>>
    /\ UNCHANGED nonDiceVars

\* roll_dice: the loop is over, return self._adjust_roll(total)
RollDiceReturn ==
    /\ dpc \in {"built", "rolling"}
    /\ rolled >= dice.number
    /\ roll_result' = AdjustRoll(dice, total)
    /\ dpc' = "rolled"
    /\ UNCHANGED <<ctor, s, args, dice, text, parsed, total, rolled>>
    /\ UNCHANGED nonDiceVars

DiceNext ==
    \/ DiceFromString
    \/ DiceFromFields
    \/ DiceStr
    \/ DiceReparse
    \/ RollDiceDraw
    \/ RollDiceReturn

(***************************************************************************)
(* Specifications: one per scenario.                                       *)
(***************************************************************************)
InitDice == DiceInit /\ TableIdle /\ SimIdle

SpecDice == InitDice /\ [][DiceNext]_vars

InitTable == TableInit /\ DiceIdle /\ SimIdle

SpecTable == InitTable /\ [][TableNext]_vars

InitSim == SimInit /\ DiceIdle /\ TableIdle

SpecSim == InitSim /\ [][SimNext]_vars

(***************************************************************************)
(* Dice claims.                                                            *)
(***************************************************************************)
IsPosInt(str) == Len(str) >= 1 /\ str[1] \in NonZeroDigits /\ IsDigits(str)

\* The whole string is a word of the notation grammar
\*   [count] "d" sides [("x"|"/") magnitude] [("+"|"-") magnitude]
\* stated by its parts: n1..n4 are the lengths of the count, the sides, the
\* multiplier part and the addend part.
InGrammar(str) ==
    \E n1 \in 0..Len(str), n2 \in 1..Len(str), n3 \in 0..Len(str), n4 \in 0..Len(str) :
        /\ n1 + 1 + n2 + n3 + n4 = Len(str)
        /\ n1 = 0 \/ IsPosInt(SubSeq(str, 1, n1))
        /\ str[n1 + 1] = "d"
        /\ IsPosInt(SubSeq(str, n1 + 2, n1 + 1 + n2))
        /\ n3 = 0 \/ /\ n3 >= 2
                     /\ str[n1 + n2 + 2] \in {"x", "/"}
                     /\ IsPosInt(SubSeq(str, n1 + n2 + 3, n1 + n2 + 1 + n3))
        /\ n4 = 0 \/ /\ n4 >= 2
                     /\ str[n1 + n2 + n3 + 2] \in {"+", "-"}
                     /\ IsDigits(SubSeq(str, n1 + n2 + n3 + 3, Len(str)))

C5_RoundTrip ==
    (dpc = "reparsed" /\ dice.number >= 1 /\ dice.sides >= 1 /\ dice.multiplier # 0)
        => parsed = dice

C5_Witness ==
    /\ dpc = "reparsed"
    /\ ctor = "fields"
    /\ dice = MkDice(11, 10, -10, -12)
    /\ text = <<"1", "1", "d", "1", "0", "/", "1", "0", "-", "1", "2">>
    /\ parsed = dice

\* ceil(sm / k) for sm >= 1, k >= 1, by its defining inequalities
RefCeil(sm, k) == CHOOSE q \in 0..sm : q * k >= sm /\ (q - 1) * k < sm

\* C6: the value roll_dice returns is the reference adjustment of the raw sum:
\* sum * multiplier + addend for a multiplier >= 0, ceil(sum / |multiplier|) +
\* addend for a negative one and a sum >= 1, and the addend alone for the empty
\* sum of a spec without dice; the raw sum is that of `count` draws in [1, sides].
C6_RollAdjust ==
    dpc = "rolled" =>
        /\ dice.number >= 1 =>
               (rolled = dice.number /\ total >= dice.number
                /\ total <= dice.number * dice.sides)
        /\ dice.number <= 0 => (rolled = 0 /\ total = 0)
        /\ roll_result =
               (IF dice.multiplier >= 0 THEN total * dice.multiplier
                ELSE IF total >= 1 THEN RefCeil(total, -dice.multiplier)
                ELSE 0) + dice.addition
        /\ total = 0 => roll_result = dice.addition

C6_Witness ==
    /\ dpc = "rolled"
    /\ dice.number = 3 /\ dice.sides = 3 /\ dice.multiplier = -2 /\ dice.addition = 0
    /\ total = 7
    /\ roll_result = 4

(***************************************************************************)
(* Table claims.                                                           *)
(***************************************************************************)
\* the data cells of the row or column the sampling call is about
TargetCells ==
    IF top = "row" THEN {table[index][j] : j \in 1..get_num_cols(table)}
    ELSE {table[i][index] : i \in 1..get_num_rows(table)}

\* C2: a value that get_random_entry_on_row / _on_col returns is never the null
\* marker: it is the cell of the target row / column at the drawn position, and
\* that position is a data position (1 <= roll <= size), never the header.
C2_NeverNull ==
    tres = "returned" =>
        /\ top \in {"row", "col"}
        /\ entry # NULL_ENTRY
        /\ roll >= 1
        /\ top = "row" => (roll <= get_num_cols(table) /\ entry = table[index][roll])
        /\ top = "col" => (roll <= get_num_rows(table) /\ entry = table[roll][index])

C2_Witness ==
    /\ tres = "returned"
    /\ top = "row"
    /\ NULL_ENTRY \in TargetCells
    /\ attempts = 2
    /\ roll = 2
    /\ entry = "y"

\* C3: no sampling call makes more than 1000 draws; the call fails exactly after
\* 1000 rejected draws, with an outcome of its own (an exception, not the -1 of
\* the name lookups, which never fail); on an all-null row / column the call can
\* only end this way, and while it runs a next step is always possible.
C3_BoundedAttempts ==
    /\ draws <= max_attempts
    /\ attempts <= max_attempts
    /\ tres = "raised" =>
           /\ top \in {"row", "col"}
           /\ draws = max_attempts /\ attempts = max_attempts
           /\ entry = "" /\ found # -1
    /\ (tpc = "done" /\ top \in {"row", "col"} /\ TargetCells = {NULL_ENTRY})
           => tres = "raised"
    /\ top \in {"row_from_name", "col_from_name"} => tres = "none"
    /\ tpc = "sampling" => (draws = attempts /\ ENABLED TableNext)

C3_Witness ==
    /\ tres = "raised"
    /\ top = "col"
    /\ get_num_rows(table) = 2
    /\ TargetCells = {NULL_ENTRY}
    /\ draws = 1000

\* the header positions >= 1 that carry the looked-up name
NameHits ==
    IF top = "row_from_name"
    THEN {i \in 1..get_num_rows(table) : get_row_name(table, i) = name}
    ELSE {j \in 1..get_num_cols(table) : get_col_name(table, j) = name}

\* C7: get_row_from_name / get_col_from_name return -1 for a name that no row /
\* column header at index >= 1 carries (the corner cell [0][0] does not count),
\* and otherwise the smallest index >= 1 whose header is the name; they end by
\* returning, never by an exception.
C7_NameLookup ==
    (tpc = "done" /\ top \in {"row_from_name", "col_from_name"}) =>
        /\ tres = "none"
        /\ NameHits = {} => (found = -1 /\ found < 1)
        /\ NameHits # {} =>
               /\ found \in NameHits
               /\ \A k \in NameHits : found <= k
               /\ top = "row_from_name" => get_row_name(table, found) = name
               /\ top = "col_from_name" => get_col_name(table, found) = name

C7_Witness ==
    /\ tpc = "done"
    /\ top = "row_from_name"
    /\ name = "Elf"
    /\ table[0][0] = "Elf"
    /\ get_num_rows(table) = 2
    /\ table[1][0] = "Orc" /\ table[2][0] = "Elf"
    /\ found = 2

(***************************************************************************)
(* Simulator claims.                                                       *)
(***************************************************************************)
\* C1: a run is never ended by one bad encounter: it does not end by an
\* exception, and when it ends all its resolutions have been made.
C1_RunNeverAborts ==
    /\ pc # "aborted"
    /\ pc = "finished" => enc = MaxEncounters

\* the NPC archetypes and their base levels
NpcBase ==
    [nm \in {"Wizard", "Necromancer", "Lord", "Superhero", "Patriarch",
             "Evil High Priest"} |->
        CASE nm = "Wizard" -> 11
          [] nm = "Necromancer" -> 10
          [] nm = "Lord" -> 9
          [] OTHER -> 8]

\* C8: for a monster name that is an NPC archetype the resolution returns the
\* base level plus the entourage, the entourage being the sum of n draws of a
\* four-sided die with n the result of 2d6, and the monster database is not
\* consulted.
C8_NpcShortCircuit ==
    monster_name \in DOMAIN NpcBase =>
        /\ pc \in {"npc", "entourage_number", "entourage", "print"}
        /\ monster_index = 0 /\ num_dice = ZeroDice /\ number = 0
        /\ ~(4 \in {stages[k] : k \in 1..Len(stages)})
        /\ pc \in {"entourage", "print"} =>
               /\ npc_level = NpcBase[monster_name]
               /\ ent_number \in 2..12
               /\ ent_i <= ent_number
               /\ ent_total >= ent_i /\ ent_total <= 4 * ent_i
        /\ pc = "print" =>
               /\ ent_i = ent_number
               /\ ret = NpcBase[monster_name] + ent_total
               /\ warned = ""

C8_Witness ==
    /\ pc = "print"
    /\ monster_name = "Lord"
    /\ ent_number = 2
    /\ ent_total = 7
    /\ ret = 16

\* floor(x / 4) by its defining inequalities
RefFloorDiv4(x) ==
    LET b == IF x < 0 THEN -x ELSE x
    IN  CHOOSE q \in -b..b : 4 * q <= x /\ x < 4 * q + 4

\* the integer the EHD cell holds (0 when it is blank or no integer)
RefCellInt(cell) == IF IsIntLiteral(cell) THEN IntLiteral(cell) ELSE 0

\* C9: for a name found in the monster database the resolution returns
\* count * difficulty when the hit-dice number is > 1.0 and
\* floor(count * difficulty / 4) when it is <= 1.0, the difficulty being the
\* integer of the EHD cell (0 when blank or unparsable) after the EHD fixup and
\* the count a roll of the number-appearing expression; a zero difficulty is
\* warned about and the total is returned all the same.
C9_MonsterTotal ==
    (pc = "print" /\ stages = <<1, 2, 3, 4>> /\ warned # "Unknown monster") =>
        LET cell == monster_table[monster_index][MONSTER_EHD_COL]
            difficulty == IF RefCellInt(cell) = 0 /\ monster_name = "Dragon, Gold"
                          THEN 40 ELSE RefCellInt(cell)
            dn == IF num_dice.number > 0 THEN num_dice.number ELSE 0
        IN  /\ monster_table[monster_index][0] = monster_name
            /\ ehd = difficulty
            /\ num_dice = ParseString(monster_table[monster_index][MONSTER_NUM_COL])
            /\ ntotal >= dn /\ ntotal <= dn * num_dice.sides
            /\ number = AdjustRoll(num_dice, ntotal)
            /\ GtOne(hit_dice_num) => ret = number * difficulty
            /\ LeOne(hit_dice_num) => ret = RefFloorDiv4(number * difficulty)
            /\ difficulty = 0 => warned = "Monster with null EHD"
            /\ difficulty # 0 => warned = ""

C9_Witness ==
    /\ pc = "print"
    /\ monster_name = "Kobold"
    /\ hit_dice_num = Dbl(5, 10)
    /\ number = 3
    /\ ehd = 8
    /\ ret = 6

\* the stage a position of the resolution belongs to
StageOf(p) ==
    CASE p = "terrain_draw" -> 1
      [] p \in {"sub_lookup", "sub_check", "sub_draw"} -> 2
      [] p \in {"npc", "entourage_number", "entourage"} -> 3
      [] p \in {"mon_lookup", "mon_check", "number"} -> 4
      [] OTHER -> 0

IsPrefix(a, b) == Len(a) <= Len(b) /\ a = SubSeq(b, 1, Len(a))

\* C10: a resolution enters its stages in the order 1 (terrain draw), 2
\* (subtable), 3 (NPC check), 4 (monster database), each at most once and the
\* position of the program always in the last stage entered; on an unknown
\* subtable or monster name the next step is the return of 0, with no later
\* stage entered and no random draw made.
C10_StagesInOrder ==
    [][/\ IsPrefix(stages', <<1, 2, 3, 4>>)
       /\ stages' # stages =>
              \/ stages' = Append(stages, Len(stages) + 1)
              \/ pc = "print" /\ stages' = <<>>
       /\ StageOf(pc') # 0 => StageOf(pc') = Len(stages')
       /\ (pc = "sub_check" /\ col_index < 1) =>
              /\ pc' = "print" /\ ret' = 0 /\ warned' = "Unknown subtable"
              /\ stages = <<1, 2>> /\ stages' = stages /\ ~drew'
       /\ (pc = "mon_check" /\ monster_index < 1) =>
              /\ pc' = "print" /\ ret' = 0 /\ warned' = "Unknown monster"
              /\ stages = <<1, 2, 3, 4>> /\ stages' = stages /\ ~drew'
       /\ pc = "print" => (pc' = "loop" /\ stages' = <<>> /\ ~drew')]_vars

C10_Witness ==
    /\ pc = "print"
    /\ terrain = "River"
    /\ sub_table_name = "Men Water"
    /\ col_index = -1
    /\ warned = "Unknown subtable"
    /\ ret = 0
    /\ stages = <<1, 2>>

====
